---- MODULE Spec2Model ----
(***************************************************************************)
(* Model of the foreign-call oracle's request pipeline (rpc_methods.rs):   *)
(* the field decoders hex_to_u8 / hex_to_u64 / hex_to_char, the input      *)
(* extractor, the three claim handlers, the resolve_foreign_call           *)
(* dispatcher and the store_key / delete_key admin methods.                *)
(*                                                                         *)
(* Strings are sequences of Unicode code points (naturals); a JSON value   *)
(* is a record tagged by t.  Numbers wider than TLC's integers (u32, u64)  *)
(* are kept as canonical base-16 numerals: the sequence of their hex       *)
(* digits, most significant first, without leading zeros (<<>> is 0).      *)
(***************************************************************************)
EXTENDS Integers, Sequences, FiniteSets, TLC

VARIABLES store, acked, inflight, ev, wire, out

vars == <<store, acked, inflight, ev, wire, out>>

(***************************************************************************)
(* Bounds of the model.                                                    *)
(***************************************************************************)
\* longest run of one repeated digit put in front of a wire scalar's tail
MaxPad == 17
\* longest free tail of a generated wire scalar
MaxTail == 2
\* longest array handed to the string decoder on its own
MaxArr == 2
\* calls that may be suspended at the evaluator at the same time
MaxInFlight == 1

(***************************************************************************)
(* JSON values (serde_json::Value).                                        *)
(***************************************************************************)
JNull == [t |-> "null"]
JBool == [t |-> "bool"]
JNum(n) == [t |-> "num", n |-> n]
JStr(s) == [t |-> "str", s |-> s]
JArr(a) == [t |-> "arr", a |-> a]
\* an object with the two members the pipeline reads; Absent marks a missing member
Absent == [t |-> "absent"]
JObj(f, i) == [t |-> "obj", function |-> f, inputs |-> i]

\* serde_json::Value::as_str / as_array / is_object
is_str(v) == v.t = "str"
is_array(v) == v.t = "arr"
is_object(v) == v.t = "obj"

(***************************************************************************)
(* Rust string primitives used by the decoders.                            *)
(***************************************************************************)
\* char::len_utf8
len_utf8(c) ==
  IF c < 128 THEN 1 ELSE IF c < 2048 THEN 2 ELSE IF c < 65536 THEN 3 ELSE 4

RECURSIVE chars_before(_, _)
\* the number of leading characters of s that take exactly n bytes, or -1
\* when byte offset n is past the end of s or inside a character
chars_before(s, n) ==
  IF n = 0 THEN 0
  ELSE IF s = <<>> \/ len_utf8(Head(s)) > n THEN -1
  ELSE LET k == chars_before(Tail(s), n - len_utf8(Head(s)))
       IN IF k = -1 THEN -1 ELSE k + 1

\* &s[n..]: panics unless n is a character boundary within s
can_slice_from(s, n) == chars_before(s, n) # -1
slice_from(s, n) == SubSeq(s, chars_before(s, n) + 1, Len(s))

\* str::starts_with("0x")
starts_with_0x(s) == Len(s) >= 2 /\ s[1] = 48 /\ s[2] = 120

\* to_digit with the upper-case digits 'A'..'F' forgotten
to_digit_lower_only(c) ==
  IF c \in 48..57 THEN c - 48
  ELSE IF c \in 97..102 THEN c - 87
  ELSE -1

\* char::to_digit(16); -1 stands for None
to_digit(c) ==
  IF c \in 48..57 THEN c - 48
  ELSE IF c \in 97..102 THEN c - 87
  ELSE IF c \in 65..70 THEN c - 55
  ELSE -1

RECURSIVE strip_zeros(_)
strip_zeros(ds) ==
  IF ds # <<>> /\ Head(ds) = 0 THEN strip_zeros(Tail(ds)) ELSE ds

RECURSIVE numeral_value(_)
\* the integer a numeral stands for (used only on numerals below 2^24)
numeral_value(ds) ==
  IF ds = <<>> THEN 0
  ELSE 16 * numeral_value(SubSeq(ds, 1, Len(ds) - 1)) + ds[Len(ds)]

ParseErr == [ok |-> FALSE, n |-> <<>>]

\* uN::from_str_radix(src, 16) for an unsigned type of `bits` bits: an optional
\* '+', then one or more hex digits, whose value must fit the type
from_str_radix(src, bits) ==
  IF src = <<>> THEN ParseErr
  ELSE IF Len(src) = 1 /\ src[1] \in {43, 45} THEN ParseErr
  ELSE LET digits == IF src[1] = 43 THEN Tail(src) ELSE src
           ds == [i \in 1..Len(digits) |-> to_digit(digits[i])]
       IN IF \E i \in 1..Len(ds) : ds[i] = -1 THEN ParseErr
          ELSE LET n == strip_zeros(ds)
               IN IF 4 * Len(n) > bits THEN ParseErr
                  ELSE [ok |-> TRUE, n |-> n]

\* char::from_u32 on a numeral; -1 stands for None
char_from_u32(n) ==
  IF Len(n) > 6 THEN -1
  ELSE LET v == numeral_value(n)
       IN IF v > 1114111 \/ v \in 55296..57343 THEN -1 ELSE v

(***************************************************************************)
(* Field decoders.  A decoder's outcome is [panic, v]: panic is TRUE when  *)
(* the Rust code panics (the string slice index is out of range or not on  *)
(* a character boundary), v is the decoded value otherwise.                *)
(***************************************************************************)
Panicked == [panic |-> TRUE, v |-> <<>>]
Decoded(v) == [panic |-> FALSE, v |-> v]

\* hex_string.as_str().unwrap_or("\0") of hex_to_u8 and hex_to_u64
str_or_nul(v) == IF is_str(v) THEN v.s ELSE <<0>>

hex_to_u8(hex_string) ==
  LET hex_str == str_or_nul(hex_string)
  IN IF ~can_slice_from(hex_str, 2) THEN Panicked
     ELSE LET r == from_str_radix(slice_from(hex_str, 2), 8)
          IN Decoded(IF r.ok THEN numeral_value(r.n) ELSE 0)

hex_to_u64(hex_string) ==
  LET hex_str == str_or_nul(hex_string)
  IN IF ~can_slice_from(hex_str, 2) THEN Panicked
     ELSE LET r == from_str_radix(slice_from(hex_str, 2), 64)
          IN Decoded(IF r.ok THEN r.n ELSE <<>>)

hex_to_char(hex_string) ==
  IF ~is_str(hex_string) THEN 0
  ELSE IF ~starts_with_0x(hex_string.s) THEN 0
  ELSE LET trimmed == slice_from(hex_string.s, 2)
           number == from_str_radix(trimmed, 32)
       IN IF ~number.ok THEN 0
          ELSE IF char_from_u32(number.n) = -1 THEN 0
          ELSE char_from_u32(number.n)

\* xs.iter().map(hex_to_char).collect::<String>()
decode_string(xs) == [i \in 1..Len(xs) |-> hex_to_char(xs[i])]

\* xs.iter().map(hex_to_u8).collect::<Vec<u8>>(): panics when an element does
decode_bytes(xs) ==
  LET ys == [i \in 1..Len(xs) |-> hex_to_u8(xs[i])]
  IN IF \E i \in 1..Len(xs) : ys[i].panic THEN Panicked
     ELSE Decoded([i \in 1..Len(xs) |-> ys[i].v])

\* xs.iter().map(hex_to_u64).collect::<Vec<u64>>()
decode_u64s(xs) ==
  LET ys == [i \in 1..Len(xs) |-> hex_to_u64(xs[i])]
  IN IF \E i \in 1..Len(xs) : ys[i].panic THEN Panicked
     ELSE Decoded([i \in 1..Len(xs) |-> ys[i].v])

(***************************************************************************)
(* Collaborators outside rpc_methods.rs: the discriminator constants and   *)
(* TimeRange of types.rs, the token store of redis.rs.  The token store is *)
(* a key-value map with the interface get(id) -> token | NotFound,         *)
(* put(id, token) -> ok | Err, delete(id) -> ok | Err: a write or a        *)
(* removal that the store cannot carry out returns an error and leaves the *)
(* associations as they were.                                              *)
(***************************************************************************)
\* three distinct strings; "TT", "TA", "RP" stand for the literal spellings
CAN_CLAIM_TOP_TRACKS == <<84, 84>>
CAN_CLAIM_TOP_ARTISTS == <<84, 65>>
CAN_CLAIM_RECENTLY_PLAYED_TRACK == <<82, 80>>

\* the bytes that name a member of the closed TimeRange enumeration
TimeRangeMembers == {0, 1, 2}

\* TimeRange::from_number
TimeRange_from_number(b) ==
  IF b \in TimeRangeMembers THEN [ok |-> TRUE, v |-> b, msg |-> ""]
  ELSE [ok |-> FALSE, v |-> 0, msg |-> "Invalid time range"]

\* get(id) -> token | NotFound
get_token(tokens, key) ==
  IF key \in DOMAIN tokens THEN [ok |-> TRUE, v |-> tokens[key], msg |-> ""]
  ELSE [ok |-> FALSE, v |-> <<>>, msg |-> "NotFound"]

\* put(id, token) -> ok | Err: the outcome and the token store it leaves;
\* reachable tells whether the store carries the write out
store_key_and_token(tokens, id, token, reachable) ==
  IF reachable
  THEN [ok |-> TRUE, msg |-> "",
        tokens |-> [k \in DOMAIN tokens \cup {id} |->
                      IF k = id THEN token ELSE tokens[k]]]
  ELSE [ok |-> FALSE, msg |-> "store unreachable", tokens |-> tokens]

\* delete(id) -> ok | Err: the outcome and the token store it leaves
delete_token(tokens, id, reachable) ==
  IF reachable
  THEN [ok |-> TRUE, msg |-> "", tokens |-> [k \in DOMAIN tokens \ {id} |-> tokens[k]]]
  ELSE [ok |-> FALSE, msg |-> "store unreachable", tokens |-> tokens]

(***************************************************************************)
(* Outcomes of a handler: an InvalidParams error, a panic, or a call       *)
(* suspended at the evaluator's .await.  steps lists, in execution order,  *)
(* the stages of the pipeline the call went through.                       *)
(***************************************************************************)
\* Error::invalid_params(msg): the message as given, no data
invalid_params(h, msg, steps) ==
  [kind |-> "err", msg |-> msg, detailed |-> FALSE, handler |-> h,
   steps |-> steps, evaluator |-> "", args |-> <<>>]

\* Error::invalid_params_with_details(msg, ""): the message behind the
\* "Invalid parameters: " prefix, with a data member
invalid_params_with_details(h, msg, steps) ==
  [kind |-> "err", msg |-> msg, detailed |-> TRUE, handler |-> h,
   steps |-> steps, evaluator |-> "", args |-> <<>>]

panic(h, steps) ==
  [kind |-> "panic", msg |-> "", detailed |-> FALSE, handler |-> h,
   steps |-> steps, evaluator |-> "", args |-> <<>>]

awaiting(h, evaluator, args, steps) ==
  [kind |-> "await", msg |-> "", detailed |-> FALSE, handler |-> h,
   steps |-> steps, evaluator |-> evaluator, args |-> args]

(***************************************************************************)
(* Input extractor.                                                        *)
(***************************************************************************)
ExtractErr(msg) ==
  [ok |-> FALSE, msg |-> msg, key |-> <<>>, track |-> <<>>,
   time_range |-> <<>>, list_range |-> <<>>]

\* the extractor with the arity test weakened to "at least four"
validate_at_least_four(params) ==
  IF ~is_array(params.inputs) THEN ExtractErr("Missing or invalid 'inputs'")
  ELSE LET inputs == params.inputs.a
       IN IF Len(inputs) < 4
          THEN ExtractErr("Invalid input; requires 4 distinct inputs")
          ELSE IF ~is_array(inputs[1]) THEN ExtractErr("First input must be an array")
          ELSE IF ~is_array(inputs[2]) THEN ExtractErr("Second input must be an array")
          ELSE IF ~is_array(inputs[3]) THEN ExtractErr("Third input must be an array")
          ELSE IF ~is_array(inputs[4]) THEN ExtractErr("Fourth input must be an array")
          ELSE [ok |-> TRUE, msg |-> "", key |-> inputs[1].a, track |-> inputs[2].a,
                time_range |-> inputs[3].a, list_range |-> inputs[4].a]

validate_and_extract_inputs(params) ==
  IF ~is_array(params.inputs) THEN ExtractErr("Missing or invalid 'inputs'")
  ELSE LET inputs == params.inputs.a
       IN IF Len(inputs) # 4
          THEN ExtractErr("Invalid input; requires 4 distinct inputs")
          ELSE IF ~is_array(inputs[1]) THEN ExtractErr("First input must be an array")
          ELSE IF ~is_array(inputs[2]) THEN ExtractErr("Second input must be an array")
          ELSE IF ~is_array(inputs[3]) THEN ExtractErr("Third input must be an array")
          ELSE IF ~is_array(inputs[4]) THEN ExtractErr("Fourth input must be an array")
          ELSE [ok |-> TRUE, msg |-> "", key |-> inputs[1].a, track |-> inputs[2].a,
                time_range |-> inputs[3].a, list_range |-> inputs[4].a]

(***************************************************************************)
(* Claim handlers.  tokens is the token store as the call finds it.        *)
(***************************************************************************)
\* the top-tracks handler fetching the token before it checks the time range
handle_top_tracks_lookup_first(params, tokens) ==
  LET h == "handle_can_claim_top_tracks"
      x == validate_and_extract_inputs(params)
  IN IF ~x.ok THEN invalid_params(h, x.msg, <<"validate">>)
     ELSE
     LET key_data == decode_string(x.key)
         track_data == decode_string(x.track)
         time_range_data == decode_bytes(x.time_range)
         list_range_data == decode_bytes(x.list_range)
     IN IF time_range_data.panic \/ list_range_data.panic
        THEN panic(h, <<"validate", "decode">>)
        ELSE IF time_range_data.v = <<>> \/ list_range_data.v = <<>>
        THEN invalid_params(h, "Time range or list range is empty",
                            <<"validate", "decode", "empty_check">>)
        ELSE
        LET auth_data == get_token(tokens, key_data)
        IN IF ~auth_data.ok
           THEN invalid_params_with_details(h, auth_data.msg,
                  <<"validate", "decode", "empty_check", "get_token">>)
           ELSE
           LET time_range_type == TimeRange_from_number(time_range_data.v[1])
           IN IF ~time_range_type.ok
              THEN invalid_params_with_details(h, time_range_type.msg,
                     <<"validate", "decode", "empty_check", "get_token", "time_range">>)
              ELSE awaiting(h, "can_claim_top_tracks",
                     <<auth_data.v, track_data, time_range_type.v, list_range_data.v[1]>>,
                     <<"validate", "decode", "empty_check", "get_token", "time_range",
                       "evaluator">>)

handle_can_claim_top_tracks(params, tokens) ==
  LET h == "handle_can_claim_top_tracks"
      x == validate_and_extract_inputs(params)
  IN IF ~x.ok THEN invalid_params(h, x.msg, <<"validate">>)
     ELSE
     LET key_data == decode_string(x.key)
         track_data == decode_string(x.track)
         time_range_data == decode_bytes(x.time_range)
         list_range_data == decode_bytes(x.list_range)
     IN IF time_range_data.panic \/ list_range_data.panic
        THEN panic(h, <<"validate", "decode">>)
        ELSE IF time_range_data.v = <<>> \/ list_range_data.v = <<>>
        THEN invalid_params(h, "Time range or list range is empty",
                            <<"validate", "decode", "empty_check">>)
        ELSE
        LET time_range_type == TimeRange_from_number(time_range_data.v[1])
        IN IF ~time_range_type.ok
           THEN invalid_params_with_details(h, time_range_type.msg,
                  <<"validate", "decode", "empty_check", "time_range">>)
           ELSE
           LET auth_data == get_token(tokens, key_data)
           IN IF ~auth_data.ok
              THEN invalid_params_with_details(h, auth_data.msg,
                     <<"validate", "decode", "empty_check", "time_range", "get_token">>)
              ELSE awaiting(h, "can_claim_top_tracks",
                     <<auth_data.v, track_data, time_range_type.v, list_range_data.v[1]>>,
                     <<"validate", "decode", "empty_check", "time_range", "get_token",
                       "evaluator">>)

handle_can_claim_top_artist(params, tokens) ==
  LET h == "handle_can_claim_top_artist"
      x == validate_and_extract_inputs(params)
  IN IF ~x.ok THEN invalid_params(h, x.msg, <<"validate">>)
     ELSE
     LET key_data == decode_string(x.key)
         track_data == decode_string(x.track)
         time_range_data == decode_bytes(x.time_range)
         list_range_data == decode_bytes(x.list_range)
     IN IF time_range_data.panic \/ list_range_data.panic
        THEN panic(h, <<"validate", "decode">>)
        ELSE IF time_range_data.v = <<>> \/ list_range_data.v = <<>>
        THEN invalid_params(h, "Time range or list range is empty",
                            <<"validate", "decode", "empty_check">>)
        ELSE
        LET time_range_type == TimeRange_from_number(time_range_data.v[1])
        IN IF ~time_range_type.ok
           THEN invalid_params_with_details(h, time_range_type.msg,
                  <<"validate", "decode", "empty_check", "time_range">>)
           ELSE
           LET auth_data == get_token(tokens, key_data)
           IN IF ~auth_data.ok
              THEN invalid_params_with_details(h, auth_data.msg,
                     <<"validate", "decode", "empty_check", "time_range", "get_token">>)
              ELSE awaiting(h, "can_claim_top_artist",
                     <<auth_data.v, track_data, time_range_type.v, list_range_data.v[1]>>,
                     <<"validate", "decode", "empty_check", "time_range", "get_token",
                       "evaluator">>)

\* the recently-played handler looking the token up under the track string
handle_recently_played_track_key(params, tokens) ==
  LET h == "handle_can_claim_recently_played_track"
      x == validate_and_extract_inputs(params)
  IN IF ~x.ok THEN invalid_params(h, x.msg, <<"validate">>)
     ELSE
     LET key_data == decode_string(x.key)
         track_data == decode_string(x.track)
         after_data == decode_u64s(x.time_range)
         played_time_data == decode_bytes(x.list_range)
     IN IF after_data.panic \/ played_time_data.panic
        THEN panic(h, <<"validate", "decode">>)
        ELSE IF after_data.v = <<>> \/ played_time_data.v = <<>>
        THEN invalid_params(h, "Time range or list range is empty",
                            <<"validate", "decode", "empty_check">>)
        ELSE
        LET auth_data == get_token(tokens, track_data)
        IN IF ~auth_data.ok
           THEN invalid_params_with_details(h, auth_data.msg,
                  <<"validate", "decode", "empty_check", "get_token">>)
           ELSE awaiting(h, "can_claim_recently_played_track",
                  <<auth_data.v, track_data, after_data.v[1], played_time_data.v[1]>>,
                  <<"validate", "decode", "empty_check", "get_token", "evaluator">>)

handle_can_claim_recently_played_track(params, tokens) ==
  LET h == "handle_can_claim_recently_played_track"
      x == validate_and_extract_inputs(params)
  IN IF ~x.ok THEN invalid_params(h, x.msg, <<"validate">>)
     ELSE
     LET key_data == decode_string(x.key)
         track_data == decode_string(x.track)
         after_data == decode_u64s(x.time_range)
         played_time_data == decode_bytes(x.list_range)
     IN IF after_data.panic \/ played_time_data.panic
        THEN panic(h, <<"validate", "decode">>)
        ELSE IF after_data.v = <<>> \/ played_time_data.v = <<>>
        THEN invalid_params(h, "Time range or list range is empty",
                            <<"validate", "decode", "empty_check">>)
        ELSE
        LET auth_data == get_token(tokens, key_data)
        IN IF ~auth_data.ok
           THEN invalid_params_with_details(h, auth_data.msg,
                  <<"validate", "decode", "empty_check", "get_token">>)
           ELSE awaiting(h, "can_claim_recently_played_track",
                  <<auth_data.v, track_data, after_data.v[1], played_time_data.v[1]>>,
                  <<"validate", "decode", "empty_check", "get_token", "evaluator">>)

(***************************************************************************)
(* JSON-RPC parameters (jsonrpc_core::Params): None, a positional array or *)
(* a by-name map.  A bare string is not a Params value.                    *)
(***************************************************************************)
PNone == [k |-> "none", items |-> <<>>]
PMap == [k |-> "map", items |-> <<>>]
PArray(items) == [k |-> "array", items |-> items]

\* Value::from(params), the first step of Params::parse
params_value(params) ==
  IF params.k = "array" THEN JArr(params.items)
  ELSE IF params.k = "map" THEN JObj(Absent, Absent)
  ELSE JNull

\* params.parse::<(String, String)>(): an array of exactly two strings
parse_string_pair(params) ==
  LET v == params_value(params)
  IN IF is_array(v) /\ Len(v.a) = 2 /\ is_str(v.a[1]) /\ is_str(v.a[2])
     THEN [ok |-> TRUE, id |-> v.a[1].s, token |-> v.a[2].s]
     ELSE [ok |-> FALSE, id |-> <<>>, token |-> <<>>]

\* params.parse::<String>(): the parameters' value must itself be a string
parse_string(params) ==
  LET v == params_value(params)
  IN IF is_str(v) THEN [ok |-> TRUE, id |-> v.s]
     ELSE [ok |-> FALSE, id |-> <<>>]

(***************************************************************************)
(* The three RPC methods of create_io.                                     *)
(***************************************************************************)
\* the dispatcher with the final else branch falling through to the last handler
resolve_foreign_call_fallthrough(params, tokens) ==
  IF params.k = "array" /\ Len(params.items) = 1
  THEN LET p == params.items[1]
       IN IF ~is_object(p)
          THEN invalid_params("", "Invalid params; expected an object", <<>>)
          ELSE IF p.function # Absent
          THEN IF p.function = JStr(CAN_CLAIM_TOP_TRACKS)
               THEN handle_can_claim_top_tracks(p, tokens)
               ELSE IF p.function = JStr(CAN_CLAIM_TOP_ARTISTS)
               THEN handle_can_claim_top_artist(p, tokens)
               ELSE handle_can_claim_recently_played_track(p, tokens)
          ELSE invalid_params("", "Missing 'function' field", <<>>)
  ELSE invalid_params("", "Invalid params; expected a single-item array", <<>>)

resolve_foreign_call(params, tokens) ==
  IF params.k = "array" /\ Len(params.items) = 1
  THEN LET p == params.items[1]
       IN IF ~is_object(p)
          THEN invalid_params("", "Invalid params; expected an object", <<>>)
          ELSE IF p.function # Absent
          THEN IF p.function = JStr(CAN_CLAIM_TOP_TRACKS)
               THEN handle_can_claim_top_tracks(p, tokens)
               ELSE IF p.function = JStr(CAN_CLAIM_TOP_ARTISTS)
               THEN handle_can_claim_top_artist(p, tokens)
               ELSE IF p.function = JStr(CAN_CLAIM_RECENTLY_PLAYED_TRACK)
               THEN handle_can_claim_recently_played_track(p, tokens)
               ELSE invalid_params("", "Invalid method", <<>>)
          ELSE invalid_params("", "Missing 'function' field", <<>>)
  ELSE invalid_params("", "Invalid params; expected a single-item array", <<>>)

\* the response of an admin method and the token store it leaves
AdminOk(id, tokens) == [kind |-> "ok", msg |-> "", val |-> id, tokens |-> tokens]
AdminErr(msg, tokens) == [kind |-> "err", msg |-> msg, val |-> <<>>, tokens |-> tokens]

\* store_key writing the pair before it rejects an empty string
store_key_write_first(params, tokens, reachable) ==
  LET parsed == parse_string_pair(params)
  IN IF ~parsed.ok THEN AdminErr("Invalid params: parse error", tokens)
     ELSE LET written == store_key_and_token(tokens, parsed.id, parsed.token, reachable)
          IN IF parsed.id = <<>> \/ parsed.token = <<>>
             THEN AdminErr("ID or token cannot be empty", written.tokens)
             ELSE IF ~written.ok THEN AdminErr(written.msg, written.tokens)
             ELSE AdminOk(parsed.id, written.tokens)

\* reachable: whether the token store carries out the write this call asks for
store_key(params, tokens, reachable) ==
  LET parsed == parse_string_pair(params)
  IN IF ~parsed.ok THEN AdminErr("Invalid params: parse error", tokens)
     ELSE IF parsed.id = <<>> \/ parsed.token = <<>>
     THEN AdminErr("ID or token cannot be empty", tokens)
     ELSE LET written == store_key_and_token(tokens, parsed.id, parsed.token, reachable)
          IN IF ~written.ok THEN AdminErr(written.msg, written.tokens)
             ELSE AdminOk(parsed.id, written.tokens)

delete_key(params, tokens, reachable) ==
  LET parsed == parse_string(params)
  IN IF ~parsed.ok THEN AdminErr("Invalid params: parse error", tokens)
     ELSE IF parsed.id = <<>>
     THEN AdminErr("ID or token cannot be empty", tokens)
     ELSE LET removed == delete_token(tokens, parsed.id, reachable)
          IN IF ~removed.ok THEN AdminErr(removed.msg, removed.tokens)
             ELSE AdminOk(parsed.id, removed.tokens)

(***************************************************************************)
(* The requests the clients send.                                          *)
(***************************************************************************)
\* the wire scalar "0x" followed by the characters of tail
Wire(tail) == JStr(<<48, 120>> \o tail)

IdA == <<65>>
IdB == <<66>>
Tok1 == <<116, 49>>
Tok2 == <<116, 50>>

\* "0x41" and "0x42" decode to "A" and "B"; "zz" is no wire scalar and decodes
\* to the null character
KeySlots == {JNull, JArr(<<Wire(<<52, 49>>)>>), JArr(<<JStr(<<122, 122>>)>>)}
TrackSlots == {JNull, JArr(<<Wire(<<52, 50>>)>>)}
\* "0x00" and "0x01" name a time range, "0x07" names none, a number is no string
RangeSlots == {JNull, JArr(<<>>), JArr(<<Wire(<<48, 48>>)>>),
               JArr(<<Wire(<<48, 55>>)>>), JArr(<<JNum(5)>>),
               JArr(<<Wire(<<48, 55>>), JNull>>)}
ListSlots == {JNull, JArr(<<>>), JArr(<<Wire(<<48, 53>>)>>), JArr(<<JStr(<<>>)>>)}

GoodInputs == <<JArr(<<Wire(<<52, 49>>)>>), JArr(<<Wire(<<52, 50>>)>>),
                JArr(<<Wire(<<48, 48>>)>>), JArr(<<Wire(<<48, 53>>)>>)>>

InputsValues ==
  {Absent, JNull}
  \cup {JArr(<<k, t, r, l>>) : k \in KeySlots, t \in TrackSlots,
                               r \in RangeSlots, l \in ListSlots}
  \cup {JArr(SubSeq(GoodInputs, 1, n)) : n \in 0..3}
  \cup {JArr(GoodInputs \o <<JArr(<<>>)>>)}

FunctionValues ==
  {Absent, JStr(CAN_CLAIM_TOP_TRACKS), JStr(CAN_CLAIM_TOP_ARTISTS),
   JStr(CAN_CLAIM_RECENTLY_PLAYED_TRACK), JStr(<<66, 79>>), JNum(1)}

Requests ==
  {PNone, PMap, PArray(<<>>), PArray(<<JNull>>),
   PArray(<<JObj(JStr(CAN_CLAIM_TOP_TRACKS), JArr(GoodInputs)),
            JObj(JStr(CAN_CLAIM_TOP_TRACKS), JArr(GoodInputs))>>)}
  \cup {PArray(<<JObj(f, i)>>) : f \in FunctionValues, i \in InputsValues}

StoreParams ==
  {PNone, PArray(<<JStr(IdA)>>), PArray(<<JStr(IdA), JNum(1)>>)}
  \cup {PArray(<<JStr(id), JStr(tok)>>) : id \in {<<>>, IdA, IdB},
                                          tok \in {<<>>, Tok1, Tok2}}

DeleteParams ==
  {PNone, PMap, PArray(<<>>), PArray(<<JStr(IdA), JStr(IdB)>>)}
  \cup {PArray(<<JStr(id)>>) : id \in {<<>>, IdA, IdB}}

\* what an evaluator answers: a verdict, or an error with a message
EvalResults ==
  {[ok |-> TRUE, v |-> TRUE], [ok |-> TRUE, v |-> FALSE], [ok |-> FALSE, v |-> FALSE]}

(***************************************************************************)
(* State.  store is the token store; acked records, per identifier, the    *)
(* token of the latest store_key answered with success (dropped by a       *)
(* delete_key answered with success); inflight holds the calls suspended   *)
(* at an evaluator; ev is the event the server shell is reporting: the     *)
(* response of a finished call, or a call's suspension at its evaluator    *)
(* (NoEvent once it is reported).                                          *)
(***************************************************************************)
NoTokens == [k \in {} |-> <<>>]
Idle == [st |-> "idle", params |-> PNone, call |-> invalid_params("", "", <<>>)]

Event(method, params, o, val) ==
  [method |-> method, params |-> params, kind |-> o.kind, msg |-> o.msg,
   detailed |-> o.detailed, handler |-> o.handler, steps |-> o.steps,
   evaluator |-> o.evaluator, args |-> o.args, val |-> val]

AdminEvent(method, params, r) ==
  [method |-> method, params |-> params, kind |-> r.kind, msg |-> r.msg,
   detailed |-> FALSE, handler |-> "", steps |-> <<>>,
   evaluator |-> "", args |-> <<>>, val |-> r.val]

NoEvent == Event("none", PNone, invalid_params("", "", <<>>), <<>>)
NoOutput == [op |-> "none", panic |-> FALSE, v |-> <<>>]

Init ==
  /\ store = NoTokens
  /\ acked = NoTokens
  /\ inflight = [i \in 1..MaxInFlight |-> Idle]
  /\ ev = NoEvent
  /\ wire = <<>>
  /\ out = NoOutput

\* a resolve_foreign_call runs to its response, or to the evaluator's .await
ResolveForeignCall ==
  \E p \in Requests :
    LET o == resolve_foreign_call(p, store)
    IN /\ ev = NoEvent
       /\ IF o.kind = "await"
          THEN \E i \in 1..MaxInFlight :
                 /\ inflight[i].st = "idle"
                 /\ \A j \in 1..(i - 1) : inflight[j].st # "idle"
                 /\ inflight' = [inflight EXCEPT
                                   ![i] = [st |-> "await", params |-> p, call |-> o]]
          ELSE UNCHANGED inflight
       /\ ev' = Event("resolve_foreign_call", p, o, <<>>)
       /\ UNCHANGED <<store, acked, wire, out>>

\* the evaluator answers a suspended call: {"values": [result]}, or
\* invalid_params_with_details carrying the evaluator's error text
EvaluatorReturns ==
  \E i \in 1..MaxInFlight : \E r \in EvalResults :
    /\ ev = NoEvent
    /\ inflight[i].st = "await"
    /\ LET c == inflight[i].call
       IN ev' = IF r.ok
                THEN Event("resolve_foreign_call", inflight[i].params,
                           [c EXCEPT !.kind = "ok"], <<r.v>>)
                ELSE Event("resolve_foreign_call", inflight[i].params,
                           [c EXCEPT !.kind = "err", !.msg = "evaluator error",
                                     !.detailed = TRUE], <<>>)
    /\ inflight' = [inflight EXCEPT ![i] = Idle]
    /\ UNCHANGED <<store, acked, wire, out>>

StoreKey ==
  \E p \in StoreParams : \E reachable \in BOOLEAN :
    LET r == store_key(p, store, reachable)
    IN /\ ev = NoEvent
       /\ store' = r.tokens
       /\ acked' = IF r.kind = "ok"
                   THEN [k \in DOMAIN acked \cup {p.items[1].s} |->
                           IF k = p.items[1].s THEN p.items[2].s ELSE acked[k]]
                   ELSE acked
       /\ ev' = AdminEvent("store_key", p, r)
       /\ UNCHANGED <<inflight, wire, out>>

DeleteKey ==
  \E p \in DeleteParams : \E reachable \in BOOLEAN :
    LET r == delete_key(p, store, reachable)
    IN /\ ev = NoEvent
       /\ store' = r.tokens
       /\ acked' = IF r.kind = "ok"
                   THEN [k \in DOMAIN acked \ {r.val} |-> acked[k]]
                   ELSE acked
       /\ ev' = AdminEvent("delete_key", p, r)
       /\ UNCHANGED <<inflight, wire, out>>

\* the shell hands the event on and takes the next one
Report ==
  /\ ev # NoEvent
  /\ ev' = NoEvent
  /\ UNCHANGED <<store, acked, inflight, wire, out>>

Next == ResolveForeignCall \/ EvaluatorReturns \/ StoreKey \/ DeleteKey \/ Report

Spec == Init /\ [][Next]_vars

(***************************************************************************)
(* The decoders on their own: an array of wire values is drawn at the      *)
(* start, and each decoder is applied to it the way the handlers do.       *)
(***************************************************************************)
\* '0'..'9', 'a'..'f', 'A'..'F'
HexChars == (48..57) \cup (97..102) \cup (65..70)

\* '1', 'F', '+', '-', 'Z' and the two-byte character U+00E9
TailChars == {49, 70, 43, 45, 90, 233}

RECURSIVE StringsUpTo(_, _)
\* the strings over alphabet of length <= n
StringsUpTo(alphabet, n) ==
  IF n = 0 THEN {<<>>}
  ELSE LET shorter == StringsUpTo(alphabet, n - 1)
       IN shorter \cup {<<c>> \o t : c \in alphabet, t \in {u \in shorter : Len(u) = n - 1}}

\* runs of '0' or of 'F'
Pads == {[i \in 1..k |-> c] : k \in 0..MaxPad, c \in {48, 70}}

\* "", "0X", "zz", U+00E9, "a" U+00E9: what a string may start with instead of "0x"
OddPrefixes == {<<>>, <<48, 88>>, <<122, 122>>, <<233>>, <<97, 233>>}

\* 0xD7FF, 0xD800, 0xDFFF, 0xE000, 0x10FFFF, 0x110000, 0x1F600, 0x+41, 0x+d800
CodePointScalars ==
  {Wire(<<68, 55, 70, 70>>), Wire(<<68, 56, 48, 48>>), Wire(<<100, 102, 102, 102>>),
   Wire(<<69, 48, 48, 48>>), Wire(<<49, 48, 70, 70, 70, 70>>),
   Wire(<<49, 49, 48, 48, 48, 48>>), Wire(<<49, 70, 54, 48, 48>>),
   Wire(<<43, 52, 49>>), Wire(<<43, 100, 56, 48, 48>>)}

WireScalars ==
  {JNull, JBool, JNum(5), JArr(<<>>), JObj(Absent, Absent)}
  \cup {Wire(<<a, b>>) : a \in HexChars, b \in HexChars}
  \cup {Wire(pad \o t) : pad \in Pads, t \in StringsUpTo(TailChars, MaxTail)}
  \cup {JStr(p \o t) : p \in OddPrefixes, t \in StringsUpTo(TailChars \cup {48}, MaxTail)}
  \cup CodePointScalars

\* "0x41", "0x+42", "0xZZ", "0xD800", "41", a non-string and the empty string
ArrayScalars ==
  {Wire(<<52, 49>>), Wire(<<43, 52, 50>>), Wire(<<90, 90>>),
   Wire(<<68, 56, 48, 48>>), JStr(<<52, 49>>), JNull, JStr(<<>>)}

WireArrays == {<<v>> : v \in WireScalars} \cup StringsUpTo(ArrayScalars, MaxArr)

InitDecode ==
  /\ store = NoTokens
  /\ acked = NoTokens
  /\ inflight = [i \in 1..MaxInFlight |-> Idle]
  /\ ev = NoEvent
  /\ wire \in WireArrays
  /\ out = NoOutput

\* key.iter().map(hex_to_char).collect()
DecodeString ==
  /\ out' = [op |-> "string", panic |-> FALSE, v |-> decode_string(wire)]
  /\ UNCHANGED <<store, acked, inflight, ev, wire>>

\* time_range.iter().map(hex_to_u8).collect()
DecodeBytes ==
  /\ out' = [op |-> "u8", panic |-> decode_bytes(wire).panic, v |-> decode_bytes(wire).v]
  /\ UNCHANGED <<store, acked, inflight, ev, wire>>

\* after_range.iter().map(hex_to_u64).collect()
DecodeU64s ==
  /\ out' = [op |-> "u64", panic |-> decode_u64s(wire).panic, v |-> decode_u64s(wire).v]
  /\ UNCHANGED <<store, acked, inflight, ev, wire>>

NextDecode == DecodeString \/ DecodeBytes \/ DecodeU64s

SpecDecode == InitDecode /\ [][NextDecode]_vars

(***************************************************************************)
(* Properties.                                                             *)
(***************************************************************************)
Range(f) == {f[i] : i \in 1..Len(f)}
Last(f) == f[Len(f)]
IsPrefix(f, g) == Len(f) <= Len(g) /\ f = SubSeq(g, 1, Len(f))

\* ev reports a resolve_foreign_call whose parameters are one object
IsClaimCall == /\ ev.method = "resolve_foreign_call"
               /\ ev.params.k = "array"
               /\ Len(ev.params.items) = 1
               /\ is_object(ev.params.items[1])
Request == ev.params.items[1]

\* the request's inputs member has the four-arrays shape
WellShaped == /\ is_array(Request.inputs)
              /\ Len(Request.inputs.a) = 4
              /\ \A i \in 1..4 : is_array(Request.inputs.a[i])

\* the string the key array of the request decodes to
KeyData == decode_string(Request.inputs.a[1].a)

\* ev was produced by the call's first run (not by the evaluator's answer)
AtCallTime == ev.kind \in {"await", "panic"} \/ (ev.kind = "err" /\ ev.msg # "evaluator error")

TopFunctions == {JStr(CAN_CLAIM_TOP_TRACKS), JStr(CAN_CLAIM_TOP_ARTISTS)}
KnownFunctions == TopFunctions \cup {JStr(CAN_CLAIM_RECENTLY_PLAYED_TRACK)}

\* the value of a hex digit character, written out independently of the decoders
HexDigit == [c \in HexChars |-> IF c <= 57 THEN c - 48
                                 ELSE IF c >= 97 THEN c - 87 ELSE c - 55]
AllHex(t) == \A i \in 1..Len(t) : t[i] \in HexChars
NoneHex(t) == \A i \in 1..Len(t) : t[i] \notin HexChars
\* the digits of t from its first non-zero digit on
Significant(t) ==
  LET nz == {i \in 1..Len(t) : HexDigit[t[i]] # 0}
  IN IF nz = {} THEN <<>>
     ELSE LET first == CHOOSE i \in nz : \A j \in nz : i <= j
          IN [k \in 1..(Len(t) - first + 1) |-> HexDigit[t[first + k - 1]]]
RECURSIVE Base16(_)
Base16(ds) == IF ds = <<>> THEN 0 ELSE 16 * Base16(SubSeq(ds, 1, Len(ds) - 1)) + Last(ds)
\* the characters after the "0x" prefix of a string that has one
AfterPrefix(v) == SubSeq(v.s, 3, Len(v.s))
HasPrefix(v) == is_str(v) /\ Len(v.s) >= 2 /\ v.s[1] = 48 /\ v.s[2] = 120

\* C1: whatever JSON value is given as a wire scalar, the byte, integer and
\* character decoders return a value and the enclosing resolve_foreign_call
\* answers with a result or an InvalidParams error: no call aborts.
C1_DecodersNeverAbort ==
  ev.method = "resolve_foreign_call" => ev.kind \in {"ok", "err", "await"}

\* the first element of the third input array decodes to a byte naming no TimeRange
BadTimeRangeByte ==
  /\ is_array(Request.inputs)
  /\ Len(Request.inputs.a) >= 3
  /\ is_array(Request.inputs.a[3])
  /\ Request.inputs.a[3].a # <<>>
  /\ ~hex_to_u8(Request.inputs.a[3].a[1]).panic
  /\ hex_to_u8(Request.inputs.a[3].a[1]).v \notin TimeRangeMembers

\* C2: a top-tracks or top-artists call whose first time-range byte names no
\* TimeRange member fails with InvalidParams and never invokes an evaluator.
C2_BadTimeRangeIsInvalidParams ==
  (IsClaimCall /\ Request.function \in TopFunctions /\ BadTimeRangeByte)
    => (ev.kind = "err" /\ "evaluator" \notin Range(ev.steps))

\* C3: once store_key(id, token) was answered with success, a claim call whose
\* key array decodes to id and that reaches the token lookup, with no later
\* store_key or delete_key on id, finds the token and hands exactly that token
\* to the evaluator.
C3_StoreThenClaim ==
  (IsClaimCall /\ AtCallTime /\ "get_token" \in Range(ev.steps) /\ KeyData \in DOMAIN acked)
    => /\ ev.kind = "await"
       /\ Last(ev.steps) = "evaluator"
       /\ ev.args[1] = acked[KeyData]

C3_Witness ==
  /\ IsClaimCall /\ ev.kind = "await"
  /\ Request.function = JStr(CAN_CLAIM_RECENTLY_PLAYED_TRACK)
  /\ KeyData = IdA /\ IdA \in DOMAIN acked /\ acked[IdA] = Tok2
  /\ ev.args[1] = Tok2

\* C4: a resolve_foreign_call whose inputs member is an array of a length other
\* than 4 fails with InvalidParams whatever the function member is, without
\* reading the token store or invoking an evaluator.
C4_WrongArityIsInvalidParams ==
  (IsClaimCall /\ is_array(Request.inputs) /\ Len(Request.inputs.a) # 4)
    => /\ ev.kind = "err"
       /\ "get_token" \notin Range(ev.steps)
       /\ "evaluator" \notin Range(ev.steps)
       /\ ev.evaluator = ""

C4_Witness ==
  /\ IsClaimCall /\ is_array(Request.inputs) /\ Len(Request.inputs.a) = 5
  /\ Request.function = JStr(CAN_CLAIM_RECENTLY_PLAYED_TRACK)
  /\ IdA \in DOMAIN store
  /\ ev.kind = "err" /\ ev.msg = "Invalid input; requires 4 distinct inputs"

\* C5: a function member that is present but is none of the three constants
\* fails with InvalidParams "Invalid method" whatever inputs holds, and each
\* constant is routed to its own handler.
C5_UnknownFunctionIsInvalidMethod ==
  IsClaimCall =>
    /\ (Request.function # Absent /\ Request.function \notin KnownFunctions)
         => (ev.kind = "err" /\ ev.msg = "Invalid method" /\ ~ev.detailed
             /\ ev.handler = "" /\ ev.steps = <<>>)
    /\ Request.function = JStr(CAN_CLAIM_TOP_TRACKS)
         => (ev.handler = "handle_can_claim_top_tracks"
             /\ ev.evaluator \in {"", "can_claim_top_tracks"})
    /\ Request.function = JStr(CAN_CLAIM_TOP_ARTISTS)
         => (ev.handler = "handle_can_claim_top_artist"
             /\ ev.evaluator \in {"", "can_claim_top_artist"})
    /\ Request.function = JStr(CAN_CLAIM_RECENTLY_PLAYED_TRACK)
         => (ev.handler = "handle_can_claim_recently_played_track"
             /\ ev.evaluator \in {"", "can_claim_recently_played_track"})

C5_Witness ==
  /\ IsClaimCall /\ Request.function = JStr(<<66, 79>>)
  /\ Request.inputs = JArr(GoodInputs) /\ IdA \in DOMAIN store
  /\ ev.kind = "err" /\ ev.msg = "Invalid method"

\* the character the string decoder is said to give for one array element
ClaimedChar(v) ==
  IF HasPrefix(v) /\ AfterPrefix(v) # <<>> /\ AllHex(AfterPrefix(v))
     /\ Len(Significant(AfterPrefix(v))) <= 6
     /\ Base16(Significant(AfterPrefix(v))) <= 1114111
     /\ Base16(Significant(AfterPrefix(v))) \notin 55296..57343
  THEN Base16(Significant(AfterPrefix(v)))
  ELSE 0

\* C6: the string decoder gives one character per array element, in order:
\* the code point of the element's hex value when the element is a valid
\* 0x-prefixed hex code point, the null character otherwise.
C6_StringDecodeElementwise ==
  out.op = "string" =>
    /\ Len(out.v) = Len(wire)
    /\ \A i \in 1..Len(wire) : out.v[i] = ClaimedChar(wire[i])

\* C7: byte decode of "0x" and two hex digits gives the digits' value; 64-bit
\* decode of "0x" and hex digits that fit 64 bits gives their exact value; "0x"
\* followed by non-hex characters decodes to 0 as a byte and as a 64-bit integer.
C7_ExactHexDecode ==
  (Len(wire) = 1 /\ HasPrefix(wire[1]) /\ AfterPrefix(wire[1]) # <<>>) =>
    LET t == AfterPrefix(wire[1])
    IN /\ (out.op = "u8" /\ Len(t) = 2 /\ AllHex(t))
            => (~out.panic /\ out.v = <<16 * HexDigit[t[1]] + HexDigit[t[2]]>>)
       /\ (out.op = "u64" /\ AllHex(t) /\ Len(Significant(t)) <= 16)
            => (~out.panic /\ out.v = <<Significant(t)>>)
       /\ (out.op = "u8" /\ NoneHex(t)) => (~out.panic /\ out.v = <<0>>)
       /\ (out.op = "u64" /\ NoneHex(t)) => (~out.panic /\ out.v = <<(<<>>)>>)

C7_Witness ==
  /\ wire = <<Wire(<<102, 70>>)>>
  /\ out.op = "u8" /\ ~out.panic /\ out.v = <<255>>

\* C8: delete_key with a non-empty identifier succeeds and echoes the
\* identifier whether or not the identifier is stored, and leaves the
\* identifier absent from the token store.
C8_DeleteKeyIdempotent ==
  (/\ ev.method = "delete_key"
   /\ ev.params.k = "array" /\ Len(ev.params.items) = 1
   /\ is_str(ev.params.items[1]) /\ ev.params.items[1].s # <<>>)
    => /\ ev.kind = "ok"
       /\ ev.val = ev.params.items[1].s
       /\ ev.params.items[1].s \notin DOMAIN store

\* the step was a store_key answered with success that set exactly id to token
StoreKeyEffect ==
  /\ ev'.method = "store_key" /\ ev'.kind = "ok"
  /\ ev'.params.k = "array" /\ Len(ev'.params.items) = 2
  /\ LET id == ev'.params.items[1].s
         token == ev'.params.items[2].s
     IN /\ id # <<>> /\ token # <<>>
        /\ DOMAIN store' = DOMAIN store \cup {id}
        /\ store'[id] = token
        /\ \A k \in DOMAIN store \ {id} : store'[k] = store[k]

\* the step was a delete_key answered with success that removed exactly id
DeleteKeyEffect ==
  /\ ev'.method = "delete_key" /\ ev'.kind = "ok"
  /\ ev'.val # <<>>
  /\ DOMAIN store' = DOMAIN store \ {ev'.val}
  /\ \A k \in DOMAIN store' : store'[k] = store[k]

\* C9: the token store changes only by a store_key with non-empty identifier
\* and token, which sets exactly that identifier, or a delete_key with a
\* non-empty identifier, which removes exactly it; resolve_foreign_call and
\* rejected admin calls leave every association as it was.
C9_StoreFrame == [][store' # store => (StoreKeyEffect \/ DeleteKeyEffect)]_vars

C9_Witness ==
  /\ ev.method = "store_key" /\ ev.kind = "ok"
  /\ ev.params = PArray(<<JStr(IdB), JStr(Tok2)>>)
  /\ DOMAIN store = {IdA, IdB} /\ store[IdA] = Tok1 /\ store[IdB] = Tok2
  /\ inflight[1].st = "await" /\ inflight[1].call.args[1] = Tok1

\* the stages of a handler, in the order the claim gives them
PipelineOrder(h) ==
  IF h = "handle_can_claim_recently_played_track"
  THEN <<"validate", "decode", "empty_check", "get_token", "evaluator">>
  ELSE <<"validate", "decode", "empty_check", "time_range", "get_token", "evaluator">>

\* the messages of the checks that come before the token lookup
EarlierMessages ==
  {"Invalid params; expected a single-item array", "Invalid params; expected an object",
   "Missing 'function' field", "Invalid method", "Missing or invalid 'inputs'",
   "Invalid input; requires 4 distinct inputs", "First input must be an array",
   "Second input must be an array", "Third input must be an array",
   "Fourth input must be an array", "Time range or list range is empty",
   "Invalid time range"}

\* the stages of call c ran once each, in order, and stopped where c failed
StagesInOrder(c) ==
  /\ IF c.handler = "" THEN c.steps = <<>>
     ELSE c.steps # <<>> /\ IsPrefix(c.steps, PipelineOrder(c.handler))
  /\ "evaluator" \in Range(c.steps)
       => (c.evaluator # "" /\ Len(c.args) = 4 /\ c.kind \in {"await", "ok", "err"})
  /\ (c.steps # <<>> /\ Last(c.steps) = "get_token")
       => (c.kind = "err" /\ c.detailed /\ c.msg = "NotFound"
           /\ c.evaluator = "" /\ c.args = <<>>)
  /\ (c.kind = "err" /\ c.msg \in EarlierMessages)
       => ("get_token" \notin Range(c.steps) /\ "evaluator" \notin Range(c.steps))

\* C10: a resolve_foreign_call runs shape validation, the empty-array check,
\* the time-range check (top-N only), one token lookup and at most one
\* evaluator call, in that order and once each; the evaluator is invoked only
\* after the lookup found a token, a failed lookup answers InvalidParams with
\* the store's error text, and a call failing an earlier check reads no token.
C10_PipelineOrder ==
  /\ ev.method = "resolve_foreign_call" => StagesInOrder(ev)
  /\ \A i \in 1..MaxInFlight : inflight[i].st = "await" => StagesInOrder(inflight[i].call)
  /\ (IsClaimCall /\ ev.kind = "await")
       => (KeyData \in DOMAIN store /\ ev.args[1] = store[KeyData])
  /\ (IsClaimCall /\ ev.steps # <<>> /\ Last(ev.steps) = "get_token")
       => KeyData \notin DOMAIN store

C10_Witness ==
  /\ IsClaimCall /\ Request.function = JStr(CAN_CLAIM_TOP_TRACKS)
  /\ ev.kind = "err" /\ ev.msg = "NotFound"
  /\ Last(ev.steps) = "get_token" /\ IdB \in DOMAIN store

====
